---- MODULE Spec2Model ----
(***************************************************************************)
(* Model of any_client.py: the interactive MCP test client.                *)
(*                                                                         *)
(* Text is modelled as a sequence of one-character strings, so that        *)
(* str.strip, str.startswith, str.isdigit, int() and json.loads/json.dumps *)
(* are computed character by character, the way the interpreter does.      *)
(* The character "sup2" stands for the single code point U+00B2            *)
(* (SUPERSCRIPT TWO): str.isdigit() accepts it, int() rejects it.          *)
(***************************************************************************)
EXTENDS Integers, Sequences, FiniteSets, TLC

(***************************************************************************)
(* Bounds of the model.                                                    *)
(***************************************************************************)
\* longest catalog the server returns
MaxTools == 2
\* most physical lines accumulated by one pass of the reader
MaxLines == 4
\* most progress notifications delivered during one tool call
MaxProgress == 2
\* most content segments of one rendered tool result
MaxSegs == 2
\* most -header options on the command line
MaxHeaders == 3

(***************************************************************************)
(* Text helpers.                                                           *)
(***************************************************************************)
QUOTE == "\""

TAB == "\t"

\* str.strip() and str.split() with no argument work on whitespace; the
\* inputs of the model use the space and the tab as whitespace characters.
IsSpace(c) == c \in {" ", TAB}

RECURSIVE LStrip(_)
LStrip(s) ==
    IF s = <<>> THEN <<>>
    ELSE IF IsSpace(Head(s)) THEN LStrip(Tail(s))
    ELSE s

RECURSIVE RStrip(_)
RStrip(s) ==
    IF s = <<>> THEN <<>>
    ELSE IF IsSpace(s[Len(s)]) THEN RStrip(SubSeq(s, 1, Len(s) - 1))
    ELSE s

Strip(s) == RStrip(LStrip(s))

StartsWith(s, p) == Len(s) >= Len(p) /\ SubSeq(s, 1, Len(p)) = p

IsPrefix(p, s) == StartsWith(s, p)

(***************************************************************************)
(* str.isdigit() and int().                                                *)
(***************************************************************************)
DecimalDigits == {"0", "1", "2", "3", "4"}

\* characters with the Unicode property Numeric_Type=Digit or Decimal
DigitChars == DecimalDigits \cup {"sup2"}

DigitValue(c) ==
    CASE c = "0" -> 0
      [] c = "1" -> 1
      [] c = "2" -> 2
      [] c = "3" -> 3
      [] c = "4" -> 4
      [] c = "sup2" -> 2
      [] OTHER -> 0

\* str.isdigit(): non-empty and every character is a digit character
IsDigit(s) == s # <<>> /\ \A i \in 1..Len(s) : s[i] \in DigitChars

RECURSIVE DecimalValue(_)
DecimalValue(s) ==
    IF s = <<>> THEN 0
    ELSE 10 * DecimalValue(SubSeq(s, 1, Len(s) - 1)) + DigitValue(s[Len(s)])

\* int(s) for a string that passed isdigit(): the value, or ValueError when a
\* character is a digit but not a decimal digit
IntOf(s) ==
    IF \A i \in 1..Len(s) : s[i] \in DecimalDigits
    THEN [ok |-> TRUE, val |-> DecimalValue(s)]
    ELSE [ok |-> FALSE, val |-> 0]

(***************************************************************************)
(* JSON values: <<"num", n>>, <<"str", chars>>, <<"obj", pairs>> where     *)
(* pairs is the sequence of <<key, value>> in dict insertion order.        *)
(***************************************************************************)
JNum(n) == <<"num", n>>
JStr(s) == <<"str", s>>
JObj(pairs) == <<"obj", pairs>>

JFail == [ok |-> FALSE, val |-> <<"none">>, next |-> 0]
JOk(v, n) == [ok |-> TRUE, val |-> v, next |-> n]

\* dict[key] = val: an existing key keeps its position and takes the new value
RECURSIVE DictSet(_, _, _)
DictSet(pairs, key, val) ==
    IF pairs = <<>> THEN << <<key, val>> >>
    ELSE IF Head(pairs)[1] = key THEN << <<key, val>> >> \o Tail(pairs)
    ELSE <<Head(pairs)>> \o DictSet(Tail(pairs), key, val)

\* first position >= i of s that holds no JSON whitespace (Len(s)+1 if none)
RECURSIVE SkipWs(_, _)
SkipWs(s, i) ==
    IF i > Len(s) THEN Len(s) + 1
    ELSE IF IsSpace(s[i]) THEN SkipWs(s, i + 1)
    ELSE i

\* position of the closing quote of the string whose body starts at i, or 0
RECURSIVE CloseQuote(_, _)
CloseQuote(s, i) ==
    IF i > Len(s) THEN 0
    ELSE IF s[i] = QUOTE THEN i
    ELSE CloseQuote(s, i + 1)

ParseString(s, i) ==
    IF i > Len(s) \/ s[i] # QUOTE THEN JFail
    ELSE LET j == CloseQuote(s, i + 1)
         IN IF j = 0 THEN JFail
            ELSE JOk(JStr(SubSeq(s, i + 1, j - 1)), j + 1)

JsonDigits == {"1", "2", "3", "4"}

\* end (exclusive) of the run of digits starting at i
RECURSIVE DigitsEnd(_, _)
DigitsEnd(s, i) ==
    IF i > Len(s) THEN i
    ELSE IF s[i] \in JsonDigits THEN DigitsEnd(s, i + 1)
    ELSE i

ParseNumber(s, i) ==
    LET j == DigitsEnd(s, i)
    IN IF j = i THEN JFail
       ELSE JOk(JNum(DecimalValue(SubSeq(s, i, j - 1))), j)

RECURSIVE ParseValue(_, _)
RECURSIVE ParseMembers(_, _, _)

\* members of an object from position i (at a key), pairs read so far in acc
ParseMembers(s, i, acc) ==
    LET k == ParseString(s, i)
    IN IF ~k.ok THEN JFail
       ELSE LET c == SkipWs(s, k.next)
            IN IF c > Len(s) \/ s[c] # ":" THEN JFail
               ELSE LET v == ParseValue(s, SkipWs(s, c + 1))
                    IN IF ~v.ok THEN JFail
                       ELSE LET d == SkipWs(s, v.next)
                                acc2 == DictSet(acc, k.val[2], v.val)
                            IN IF d > Len(s) THEN JFail
                               ELSE IF s[d] = "}" THEN JOk(JObj(acc2), d + 1)
                               ELSE IF s[d] = ","
                                    THEN ParseMembers(s, SkipWs(s, d + 1), acc2)
                               ELSE JFail

ParseObject(s, i) ==
    LET j == SkipWs(s, i + 1)
    IN IF j > Len(s) THEN JFail
       ELSE IF s[j] = "}" THEN JOk(JObj(<<>>), j + 1)
       ELSE ParseMembers(s, j, <<>>)

ParseValue(s, i) ==
    IF i > Len(s) THEN JFail
    ELSE IF s[i] = "{" THEN ParseObject(s, i)
    ELSE IF s[i] = QUOTE THEN ParseString(s, i)
    ELSE IF s[i] \in JsonDigits THEN ParseNumber(s, i)
    ELSE JFail

\* json.loads(s): one value, whitespace around it, nothing after it;
\* ok = FALSE stands for json.JSONDecodeError
JsonLoads(s) ==
    LET v == ParseValue(s, SkipWs(s, 1))
    IN IF v.ok /\ SkipWs(s, v.next) = Len(s) + 1
       THEN [ok |-> TRUE, val |-> v.val]
       ELSE [ok |-> FALSE, val |-> <<"none">>]

(***************************************************************************)
(* json.dumps(value, indent=2), as the sequence of the lines it prints.    *)
(***************************************************************************)
RECURSIVE Spaces(_)
Spaces(n) == IF n = 0 THEN <<>> ELSE <<" ">> \o Spaces(n - 1)

DigitChar(d) ==
    CASE d = 0 -> "0"
      [] d = 1 -> "1"
      [] d = 2 -> "2"
      [] d = 3 -> "3"
      [] d = 4 -> "4"
      [] d = 5 -> "5"
      [] d = 6 -> "6"
      [] d = 7 -> "7"
      [] d = 8 -> "8"
      [] OTHER -> "9"

RECURSIVE NumChars(_)
NumChars(n) ==
    IF n < 10 THEN <<DigitChar(n)>>
    ELSE NumChars(n \div 10) \o <<DigitChar(n % 10)>>

RECURSIVE DumpLines(_, _)
RECURSIVE DumpMembers(_, _)

\* lines of the members of an object, each at indentation ind
DumpMembers(pairs, ind) ==
    IF pairs = <<>> THEN <<>>
    ELSE LET vl == DumpLines(Head(pairs)[2], ind)
             first == Spaces(ind) \o <<QUOTE>> \o Head(pairs)[1]
                        \o <<QUOTE, ":", " ">> \o vl[1]
             ml == <<first>> \o Tail(vl)
             n == Len(ml)
         IN IF Tail(pairs) = <<>> THEN ml
            ELSE SubSeq(ml, 1, n - 1) \o <<ml[n] \o <<",">> >>
                   \o DumpMembers(Tail(pairs), ind)

\* lines of value v whose first line continues the current line and whose
\* closing line is indented by ind
DumpLines(v, ind) ==
    IF v[1] = "num" THEN <<NumChars(v[2])>>
    ELSE IF v[1] = "str" THEN << <<QUOTE>> \o v[2] \o <<QUOTE>> >>
    ELSE IF v[2] = <<>> THEN << <<"{", "}">> >>
    ELSE << <<"{">> >> \o DumpMembers(v[2], ind + 2)
           \o << Spaces(ind) \o <<"}">> >>

JsonDumps(v) == DumpLines(v, 0)

(***************************************************************************)
(* Inputs of the model.                                                    *)
(***************************************************************************)
\* names a server may give its tools (the protocol allows the empty string)
ToolNames == {"", "echo", "add"}

\* catalogs client.list_tools() may return
Catalogs == UNION {[1..n -> ToolNames] : n \in 0..MaxTools}

\* lines the user may type at the command prompt
Commands ==
    { <<>>, <<" ">>,
      <<"l", "i", "s", "t">>, <<" ", "l", "i", "s", "t", " ">>,
      <<"d", "u", "m", "p">>, <<"q", "u", "i", "t">>,
      <<"0">>, <<"1">>, <<"2">>, <<"3">>, <<"4">>, <<"0", "1">>,
      <<"sup2">>, <<"x">>, <<"1", "x">>, <<"l", "i", "s", "t", "1">> }

L_open == <<"{">>
L_close == <<"}">>
L_a1 == <<" ", " ", QUOTE, "a", QUOTE, ":", " ", "1">>
L_a1c == <<" ", " ", QUOTE, "a", QUOTE, ":", " ", "1", ",">>
L_b2 == <<" ", " ", QUOTE, "b", QUOTE, ":", " ", "2">>
L_blank == <<>>
L_x == <<"x">>
L_obj0 == <<"{", "}">>
L_one == <<" ", "{", QUOTE, "a", QUOTE, ":", "1", "}", " ">>
L_nested ==
    <<"{", QUOTE, "a", QUOTE, ":", " ", "{", QUOTE, "b", QUOTE, ":", " ",
      "2", "}", "}">>

\* lines the user may type at the argument prompt
ArgLines ==
    {L_open, L_close, L_a1, L_a1c, L_b2, L_blank, L_x, L_obj0, L_one, L_nested}

TextSeg(t) == <<"text", t>>
OtherSeg == <<"other", <<>>>>

\* results client.call_tool() may deliver
Results ==
    { [has_content |-> FALSE, content |-> <<>>],
      [has_content |-> TRUE, content |-> <<>>],
      [has_content |-> TRUE,
       content |-> <<TextSeg(<<"{", QUOTE, "a", QUOTE, ":", "1", "}">>)>>],
      [has_content |-> TRUE,
       content |-> <<TextSeg(<<"p", "l", "a", "i", "n">>), OtherSeg>>] }

(***************************************************************************)
(* State.                                                                  *)
(***************************************************************************)
VARIABLES
    pc,          \* where the process is blocked, or how it ended
    exc,         \* the exception that ended the process, "none" if none
    connected,   \* inside the `async with self.client` block
    tools,       \* self.tools, the catalog (names; schemas are opaque)
    schema_file, \* schema.json: <<"absent">> or <<"saved", catalog dumped>>
    command,     \* cmd_loop: the stripped command of the current iteration
    tool_name,   \* cmd_loop: the name returned by cmd_show_tool_schema
    arguments,   \* cmd_loop: the value returned by input_json
    lines,       \* input_json: the accumulated buffer
    line,        \* input_json: the line read last
    parsed,      \* input_json: json.loads was attempted on the last buffer
    fed,         \* input_json: lines read since the buffer was last empty
    call,        \* the outstanding client.call_tool(name, args)
    nprogress,   \* progress notifications delivered to the outstanding call
    ncalls,      \* client.call_tool invocations made by the current command
    out,         \* what was printed since the process last blocked
    event,       \* what the environment delivered to the process last
    index,       \* argument of a direct call of cmd_show_tool_schema
    shown,       \* result of a direct call of cmd_show_tool_schema
    nacquire,    \* times the `async with self.client` block was entered
    nrelease,    \* times the `async with self.client` block was left
    nfetch,      \* client.list_tools() invocations
    tool_result, \* argument of a direct call of pretty_print_tool_result
    args,        \* main: the parsed command line (url, type, header)
    url,         \* main: the endpoint in use
    mcp_type,    \* main: the transport kind in use
    headers,     \* main: the header map, pairs in insertion order
    config       \* FastMcpClient.__init__: the configuration built

vars ==
    <<pc, exc, connected, tools, schema_file, command, tool_name, arguments,
      lines, line, parsed, fed, call, nprogress, ncalls, out, event, index,
      shown, nacquire, nrelease, nfetch, tool_result, args, url, mcp_type,
      headers,
      config>>

\* the state of main() before the client is constructed
mainvars == <<args, url, mcp_type, headers, config>>

NoName == [none |-> TRUE, name |-> ""]
SomeName(n) == [none |-> FALSE, name |-> n]
\* truth value of `if tool_name:` -- None and the empty string are false
Truthy(r) == ~r.none /\ r.name # ""

NoValue == <<"none">>
NoCall == [active |-> FALSE, name |-> "", args |-> NoValue]
NoLine == <<"-">>
NoResult == [has_content |-> FALSE, content |-> <<>>]
NoArgs == [url |-> <<>>, type |-> "", header |-> <<>>]
NoConfig == [kind |-> "none"]

Text(t) == <<"text", t>>
LoopPrompt == <<"prompt", "cmd">>
ArgsPrompt(name) == <<"prompt", "args", name>>

(***************************************************************************)
(* The methods of FastMcpClient, as functions of what they read.           *)
(***************************************************************************)
\* cmd_list_tools: header, one row per tool numbered from 1, footer
cmd_list_tools(ts) ==
    <<Text("=="), Text("index | tool name")>>
      \o [i \in 1..Len(ts) |-> <<"row", i, ts[i]>>]
      \o <<Text("==")>>

\* cmd_show_tool_schema without the test `index < 0`: a negative index then
\* counts from the end of the list, as Python list indexing does
cmd_show_tool_schema_NoLowerBound(ts, idx) ==
    IF idx >= Len(ts) \/ idx < 0 - Len(ts)
    THEN [ret |-> NoName, printed |-> <<>>]
    ELSE LET k == IF idx < 0 THEN Len(ts) + idx + 1 ELSE idx + 1
         IN [ret |-> SomeName(ts[k]), printed |-> << <<"schema", ts[k]>> >>]

\* cmd_show_tool_schema(index): the name returned and what is printed
cmd_show_tool_schema(ts, idx) ==
    IF idx < 0 \/ idx >= Len(ts)
    THEN [ret |-> NoName, printed |-> <<>>]
    ELSE [ret |-> SomeName(ts[idx + 1]),
          printed |-> << <<"schema", ts[idx + 1]>> >>]

\* cmd_dump_tools_schema: the content written to schema.json
cmd_dump_tools_schema(ts) == <<"saved", ts>>

\* a renderer that reports a payload that is not JSON as an error
RenderSegment_NoFallback(seg) ==
    IF seg[1] = "text"
    THEN LET r == JsonLoads(seg[2])
         IN IF r.ok
            THEN << <<"print", JsonDumps(r.val)>> >>
            ELSE << <<"failed", "", "message">> >>
    ELSE << <<"repr", seg>> >>

\* one segment of pretty_print_tool_result: one print() per segment, of the
\* lines of json.dumps(indent=2) or of the text as it is
RenderSegment(seg) ==
    IF seg[1] = "text"
    THEN LET r == JsonLoads(seg[2])
         IN IF r.ok
            THEN << <<"print", JsonDumps(r.val)>> >>
            ELSE << <<"print", <<seg[2]>> >> >>
    ELSE << <<"repr", seg>> >>

RECURSIVE RenderContent(_)
RenderContent(content) ==
    IF content = <<>> THEN <<>>
    ELSE RenderSegment(Head(content)) \o RenderContent(Tail(content))

pretty_print_tool_result(result) ==
    <<Text("tool result")>>
      \o (IF result.has_content THEN RenderContent(result.content)
          ELSE << <<"repr", result>> >>)

\* input_json with `lines = line` in place of `lines += line`
input_json_NoAccumulate(buf, ln) ==
    LET acc == Strip(ln)
    IN IF ~StartsWith(acc, <<"{">>)
       THEN [ret |-> FALSE, val |-> NoValue, lines |-> <<>>,
             parsed |-> FALSE, printed |-> <<Text("invalid json format")>>]
       ELSE LET r == JsonLoads(acc)
            IN [ret |-> r.ok, val |-> r.val, lines |-> acc,
                parsed |-> TRUE, printed |-> <<>>]

\* input_json without `lines = ""` in the reject branch
input_json_NoReset(buf, ln) ==
    LET acc == Strip(buf \o ln)
    IN IF ~StartsWith(acc, <<"{">>)
       THEN [ret |-> FALSE, val |-> NoValue, lines |-> acc,
             parsed |-> FALSE, printed |-> <<Text("invalid json format")>>]
       ELSE LET r == JsonLoads(acc)
            IN [ret |-> r.ok, val |-> r.val, lines |-> acc,
                parsed |-> TRUE, printed |-> <<>>]

\* input_json that reports every failed parse
input_json_LoudParse(buf, ln) ==
    LET acc == Strip(buf \o ln)
    IN IF ~StartsWith(acc, <<"{">>)
       THEN [ret |-> FALSE, val |-> NoValue, lines |-> <<>>,
             parsed |-> FALSE, printed |-> <<Text("invalid json format")>>]
       ELSE LET r == JsonLoads(acc)
            IN [ret |-> r.ok, val |-> r.val, lines |-> acc,
                parsed |-> TRUE,
                printed |-> IF r.ok THEN <<>>
                            ELSE <<Text("invalid json format")>>]

\* input_json without `lines = lines.strip()`
input_json_NoStrip(buf, ln) ==
    LET acc == buf \o ln
    IN IF ~StartsWith(acc, <<"{">>)
       THEN [ret |-> FALSE, val |-> NoValue, lines |-> <<>>,
             parsed |-> FALSE, printed |-> <<Text("invalid json format")>>]
       ELSE LET r == JsonLoads(acc)
            IN [ret |-> r.ok, val |-> r.val, lines |-> acc,
                parsed |-> TRUE, printed |-> <<>>]

\* one iteration of the loop of input_json, after input() returned ln
input_json(buf, ln) ==
    LET acc == Strip(buf \o ln)
    IN IF ~StartsWith(acc, <<"{">>)
       THEN [ret |-> FALSE, val |-> NoValue, lines |-> <<>>,
             parsed |-> FALSE, printed |-> <<Text("invalid json format")>>]
       ELSE LET r == JsonLoads(acc)
            IN [ret |-> r.ok, val |-> r.val, lines |-> acc,
                parsed |-> TRUE, printed |-> <<>>]

\* `arguments or {}`
OrEmpty(a) == IF a = NoValue \/ a = JObj(<<>>) THEN JObj(<<>>) ELSE a

\* the elif chain of cmd_loop
Classify(c) ==
    IF c = <<>> THEN "empty"
    ELSE IF c = <<"l", "i", "s", "t">> THEN "list"
    ELSE IF c = <<"d", "u", "m", "p">> THEN "dump"
    ELSE IF c = <<"q", "u", "i", "t">> THEN "quit"
    ELSE IF IsDigit(c) THEN "digit"
    ELSE "unknown"

(***************************************************************************)
(* Initial state: the client is constructed and connect_and_loop() is      *)
(* about to enter `async with self.client`.                                *)
(***************************************************************************)
Init ==
    /\ pc = "connect"
    /\ exc = "none"
    /\ connected = FALSE
    /\ tools = <<>>
    /\ schema_file = <<"absent">>
    /\ command = <<>>
    /\ tool_name = NoName
    /\ arguments = NoValue
    /\ lines = <<>>
    /\ line = NoLine
    /\ parsed = FALSE
    /\ fed = <<>>
    /\ call = NoCall
    /\ nprogress = 0
    /\ ncalls = 0
    /\ out = <<>>
    /\ event = "none"
    /\ index = 0
    /\ shown = NoName
    /\ nacquire = 0
    /\ nrelease = 0
    /\ nfetch = 0
    /\ tool_result = NoResult
    /\ args = NoArgs
    /\ url = <<>>
    /\ mcp_type = ""
    /\ headers = <<>>
    /\ config = NoConfig

\* the locals of cmd_loop and input_json hold nothing that is read again
ClearLocals ==
    /\ tool_name' = NoName
    /\ arguments' = NoValue
    /\ lines' = <<>>
    /\ line' = NoLine
    /\ parsed' = FALSE
    /\ fed' = <<>>
    /\ call' = NoCall
    /\ nprogress' = 0

\* a top level without `except EOFError`
Unwind_NoEofHandler(e, printed) ==
    /\ exc' = e
    /\ connected' = FALSE
    /\ pc' = IF e = "KeyboardInterrupt" THEN "exit_quiet" ELSE "traceback"
    /\ out' = printed \o (IF e = "KeyboardInterrupt"
                          THEN <<Text("")>> ELSE << <<"traceback", e>> >>)
    /\ ClearLocals
    /\ nrelease' = IF connected THEN nrelease + 1 ELSE nrelease
    /\ UNCHANGED nacquire

\* a client held without `async with`: an exception does not release it
Unwind_NoRelease(e, printed) ==
    /\ exc' = e
    /\ connected' = connected
    /\ pc' = IF e \in {"KeyboardInterrupt", "EOFError"}
             THEN "exit_quiet" ELSE "traceback"
    /\ out' = printed \o (IF e \in {"KeyboardInterrupt", "EOFError"}
                          THEN <<Text("")>> ELSE << <<"traceback", e>> >>)
    /\ ClearLocals
    /\ UNCHANGED <<nacquire, nrelease>>

\* An exception e leaves connect_and_loop: `async with` releases the
\* connection, and the top level prints an empty line for KeyboardInterrupt
\* and EOFError and lets anything else through as a traceback.
Unwind(e, printed) ==
    /\ exc' = e
    /\ connected' = FALSE
    /\ pc' = IF e \in {"KeyboardInterrupt", "EOFError"}
             THEN "exit_quiet" ELSE "traceback"
    /\ out' = printed \o (IF e \in {"KeyboardInterrupt", "EOFError"}
                          THEN <<Text("")>> ELSE << <<"traceback", e>> >>)
    /\ ClearLocals
    /\ nrelease' = IF connected THEN nrelease + 1 ELSE nrelease
    /\ UNCHANGED nacquire

(***************************************************************************)
(* connect_and_loop                                                        *)
(***************************************************************************)
ConnectOk ==
    /\ pc = "connect"
    /\ event' = "connect_ok"
    /\ pc' = "list_tools"
    /\ connected' = TRUE
    /\ UNCHANGED <<exc, tools, schema_file, command, tool_name, arguments,
                   lines, line, parsed, fed, call, nprogress, ncalls, out,
                   index, shown>>
    /\ UNCHANGED <<mainvars, tool_result>>
    /\ nacquire' = nacquire + 1
    /\ UNCHANGED <<nrelease, nfetch>>

\* the transport cannot be established: the block is never entered
ConnectFail ==
    /\ pc = "connect"
    /\ event' = "connect_fail"
    /\ Unwind("ConnectError", <<>>)
    /\ UNCHANGED <<tools, schema_file, command, ncalls, index, shown>>
    /\ UNCHANGED <<mainvars, tool_result>>
    /\ UNCHANGED nfetch

\* self.tools = await self.client.list_tools(); self.cmd_list_tools();
\* cmd_loop() up to its first input(prompt)
ListToolsOk ==
    /\ pc = "list_tools"
    /\ event' = "catalog"
    /\ \E cat \in Catalogs :
          /\ tools' = cat
          /\ out' = cmd_list_tools(cat) \o <<LoopPrompt>>
    /\ pc' = "cmd_loop"
    /\ UNCHANGED <<exc, connected, schema_file, command, tool_name,
                   arguments, lines, line, parsed, fed, call, nprogress,
                   ncalls, index, shown>>
    /\ UNCHANGED <<mainvars, tool_result>>
    /\ nfetch' = nfetch + 1
    /\ UNCHANGED <<nacquire, nrelease>>

ListToolsFail ==
    /\ pc = "list_tools"
    /\ event' = "catalog_fail"
    /\ Unwind("McpError", <<>>)
    /\ UNCHANGED <<tools, schema_file, command, ncalls, index, shown>>
    /\ UNCHANGED <<mainvars, tool_result>>
    /\ nfetch' = nfetch + 1

(***************************************************************************)
(* cmd_loop: one action per branch of the elif chain.  Each reads a line,  *)
(* strips it, runs the branch and blocks again at the next input().        *)
(***************************************************************************)
\* a loop that fetches the catalog again before each prompt
Back_Refetch(printed) ==
    /\ pc' = "cmd_loop"
    /\ out' = printed \o <<LoopPrompt>>
    /\ ncalls' = 0
    /\ ClearLocals
    /\ \E cat \in Catalogs : tools' = cat
    /\ UNCHANGED <<exc, connected, index, shown>>
    /\ UNCHANGED <<nacquire, nrelease>>

Back(printed) ==
    /\ pc' = "cmd_loop"
    /\ out' = printed \o <<LoopPrompt>>
    /\ ncalls' = 0
    /\ ClearLocals
    /\ UNCHANGED <<exc, connected, tools, index, shown>>
    /\ UNCHANGED <<nacquire, nrelease>>

CmdEmpty ==
    /\ pc = "cmd_loop"
    /\ event' = "command"
    /\ \E raw \in Commands :
          /\ Classify(Strip(raw)) = "empty"
          /\ command' = Strip(raw)
    /\ Back(<<>>)
    /\ UNCHANGED schema_file
    /\ UNCHANGED <<mainvars, tool_result>>
    /\ UNCHANGED nfetch

\* `await self.cmd_list_tools()`: the method is a plain function, it prints
\* the table and returns None, and awaiting None raises TypeError
AwaitListTools == "TypeError"

CmdList ==
    /\ pc = "cmd_loop"
    /\ event' = "command"
    /\ \E raw \in Commands :
          /\ Classify(Strip(raw)) = "list"
          /\ command' = Strip(raw)
    /\ IF AwaitListTools = "ok"
       THEN Back(cmd_list_tools(tools))
       ELSE /\ Unwind(AwaitListTools, cmd_list_tools(tools))
            /\ ncalls' = 0
            /\ UNCHANGED <<tools, index, shown>>
    /\ UNCHANGED schema_file
    /\ UNCHANGED <<mainvars, tool_result>>
    /\ UNCHANGED nfetch

CmdDump ==
    /\ pc = "cmd_loop"
    /\ event' = "command"
    /\ \E raw \in Commands :
          /\ Classify(Strip(raw)) = "dump"
          /\ command' = Strip(raw)
    /\ schema_file' = cmd_dump_tools_schema(tools)
    /\ Back(<<Text("schema.json saved")>>)
    /\ UNCHANGED <<mainvars, tool_result>>
    /\ UNCHANGED nfetch

\* break: cmd_loop returns, the `async with` block is left, main returns
CmdQuit ==
    /\ pc = "cmd_loop"
    /\ event' = "command"
    /\ \E raw \in Commands :
          /\ Classify(Strip(raw)) = "quit"
          /\ command' = Strip(raw)
    /\ pc' = "exit"
    /\ connected' = FALSE
    /\ out' = <<>>
    /\ ncalls' = 0
    /\ ClearLocals
    /\ UNCHANGED <<exc, tools, schema_file, index, shown>>
    /\ UNCHANGED <<mainvars, tool_result>>
    /\ nrelease' = nrelease + 1
    /\ UNCHANGED <<nacquire, nfetch>>

CmdUnknown ==
    /\ pc = "cmd_loop"
    /\ event' = "command"
    /\ \E raw \in Commands :
          /\ Classify(Strip(raw)) = "unknown"
          /\ command' = Strip(raw)
    /\ Back(<<Text("Unknown command")>>)
    /\ UNCHANGED schema_file
    /\ UNCHANGED <<mainvars, tool_result>>
    /\ UNCHANGED nfetch

\* elif command.isdigit(): int(command) - 1, cmd_show_tool_schema, and for a
\* true name the call of input_json up to its first input()
CmdDigit ==
    /\ pc = "cmd_loop"
    /\ event' = "command"
    /\ \E raw \in Commands :
          /\ Classify(Strip(raw)) = "digit"
          /\ command' = Strip(raw)
          /\ LET n == IntOf(Strip(raw))
                 r == cmd_show_tool_schema(tools, n.val - 1)
             IN IF ~n.ok
                THEN /\ Unwind("ValueError", <<>>)
                     /\ ncalls' = 0
                     /\ UNCHANGED <<tools, index, shown>>
                ELSE IF Truthy(r.ret)
                THEN /\ pc' = "input_json"
                     /\ tool_name' = r.ret
                     /\ out' = r.printed \o <<ArgsPrompt(r.ret.name)>>
                     /\ ncalls' = 0
                     /\ arguments' = NoValue
                     /\ lines' = <<>>
                     /\ line' = NoLine
                     /\ parsed' = FALSE
                     /\ fed' = <<>>
                     /\ call' = NoCall
                     /\ nprogress' = 0
                     /\ UNCHANGED <<exc, connected, tools, index, shown,
                                    nacquire, nrelease>>
                ELSE Back(r.printed)
    /\ UNCHANGED schema_file
    /\ UNCHANGED <<mainvars, tool_result>>
    /\ UNCHANGED nfetch

(***************************************************************************)
(* input_json: one line read; on success the loop goes on into             *)
(* cmd_call_tool up to `await self.client.call_tool(...)`.                 *)
(***************************************************************************)
\* cmd_call_tool without `await`: the loop goes on while the call runs
AwaitCallTool_FireAndForget == "cmd_loop"

\* where the loop blocks once client.call_tool is invoked: `await` keeps it
\* in cmd_call_tool until the call completes
AwaitCallTool == "call_tool"

InputJsonRead ==
    /\ pc = "input_json"
    /\ event' = "line"
    /\ Len(fed) < MaxLines
    /\ \E ln \in ArgLines :
          LET r == input_json(lines, ln)
          IN /\ line' = ln
             /\ parsed' = r.parsed
             /\ IF r.ret
                THEN /\ pc' = AwaitCallTool
                     /\ arguments' = r.val
                     /\ lines' = <<>>
                     /\ fed' = <<>>
                     /\ call' = [active |-> TRUE, name |-> tool_name.name,
                                 args |-> OrEmpty(r.val)]
                     /\ ncalls' = ncalls + 1
                     /\ out' = << <<"call tool", tool_name.name>> >>
                ELSE /\ pc' = "input_json"
                     /\ lines' = r.lines
                     /\ fed' = IF r.lines = <<>> THEN <<>> ELSE fed \o <<ln>>
                     /\ out' = r.printed
                                 \o (IF r.lines = <<>>
                                     THEN <<ArgsPrompt(tool_name.name)>>
                                     ELSE <<>>)
                     /\ UNCHANGED <<arguments, call, ncalls>>
    /\ UNCHANGED <<exc, connected, tools, schema_file, command, tool_name,
                   nprogress, index, shown>>
    /\ UNCHANGED <<mainvars, tool_result>>
    /\ UNCHANGED <<nacquire, nrelease, nfetch>>

(***************************************************************************)
(* cmd_call_tool                                                           *)
(***************************************************************************)
\* a log_callback that drops the notification
log_callback_Silent == <<>>

\* log_callback: prints the notification and returns
log_callback == << <<"progress">> >>

Progress ==
    /\ pc = "call_tool"
    /\ event' = "progress"
    /\ nprogress < MaxProgress
    /\ nprogress' = nprogress + 1
    /\ out' = log_callback
    /\ UNCHANGED <<pc, exc, connected, tools, schema_file, command,
                   tool_name, arguments, lines, line, parsed, fed, call,
                   ncalls, index, shown>>
    /\ UNCHANGED <<mainvars, tool_result>>
    /\ UNCHANGED <<nacquire, nrelease, nfetch>>

\* a cmd_call_tool without the try/except
OnCallError_Propagate == "propagate"

\* what `except Exception` does with a failure of call_tool: "caught" prints
\* the message and returns to the loop
OnCallError == "caught"

CallToolOk ==
    /\ pc = "call_tool"
    /\ event' = "result"
    /\ \E result \in Results :
          /\ pc' = "cmd_loop"
          /\ out' = pretty_print_tool_result(result) \o <<LoopPrompt>>
    /\ ClearLocals
    /\ UNCHANGED <<exc, connected, tools, schema_file, command, ncalls,
                   index, shown>>
    /\ UNCHANGED <<mainvars, tool_result>>
    /\ UNCHANGED <<nacquire, nrelease, nfetch>>

CallToolFail ==
    /\ pc = "call_tool"
    /\ event' = "error"
    /\ IF OnCallError = "caught"
       THEN /\ pc' = "cmd_loop"
            /\ out' = << <<"failed", call.name, "message">>, LoopPrompt >>
            /\ ClearLocals
            /\ UNCHANGED <<exc, connected, nacquire, nrelease>>
       ELSE Unwind("ToolError", <<>>)
    /\ UNCHANGED <<tools, schema_file, command, ncalls, index, shown>>
    /\ UNCHANGED <<mainvars, tool_result>>
    /\ UNCHANGED nfetch

(***************************************************************************)
(* End of input and interrupt.                                             *)
(***************************************************************************)
\* input() raises EOFError; nothing below the top level catches it
EndOfInput ==
    /\ pc \in {"cmd_loop", "input_json"}
    /\ event' = "eof"
    /\ Unwind("EOFError", <<>>)
    /\ UNCHANGED <<tools, schema_file, command, ncalls, index, shown>>
    /\ UNCHANGED <<mainvars, tool_result>>
    /\ UNCHANGED nfetch

\* Ctrl-C while blocked; `except Exception` does not catch it
Interrupt ==
    /\ pc \in {"connect", "list_tools", "cmd_loop", "input_json", "call_tool"}
    /\ event' = "interrupt"
    /\ Unwind("KeyboardInterrupt", <<>>)
    /\ UNCHANGED <<tools, schema_file, command, ncalls, index, shown>>
    /\ UNCHANGED <<mainvars, tool_result>>
    /\ UNCHANGED nfetch

Next ==
    \/ ConnectOk
    \/ ConnectFail
    \/ ListToolsOk
    \/ ListToolsFail
    \/ CmdEmpty
    \/ CmdList
    \/ CmdDump
    \/ CmdQuit
    \/ CmdUnknown
    \/ CmdDigit
    \/ InputJsonRead
    \/ Progress
    \/ CallToolOk
    \/ CallToolFail
    \/ EndOfInput
    \/ Interrupt

Spec == Init /\ [][Next]_vars

(***************************************************************************)
(* cmd_show_tool_schema called directly, for every catalog and index.      *)
(***************************************************************************)
ShowIndices == (0 - 3)..(MaxTools + 1)

InitShow ==
    /\ pc = "show_call"
    /\ tools \in Catalogs
    /\ index \in ShowIndices
    /\ exc = "none"
    /\ connected = TRUE
    /\ schema_file = <<"absent">>
    /\ command = <<>>
    /\ tool_name = NoName
    /\ arguments = NoValue
    /\ lines = <<>>
    /\ line = NoLine
    /\ parsed = FALSE
    /\ fed = <<>>
    /\ call = NoCall
    /\ nprogress = 0
    /\ ncalls = 0
    /\ out = <<>>
    /\ event = "none"
    /\ shown = NoName
    /\ nacquire = 0
    /\ nrelease = 0
    /\ nfetch = 0
    /\ tool_result = NoResult
    /\ args = NoArgs
    /\ url = <<>>
    /\ mcp_type = ""
    /\ headers = <<>>
    /\ config = NoConfig

ShowApply ==
    /\ pc = "show_call"
    /\ shown' = cmd_show_tool_schema(tools, index).ret
    /\ out' = cmd_show_tool_schema(tools, index).printed
    /\ pc' = "show_done"
    /\ UNCHANGED <<exc, connected, tools, schema_file, command, tool_name,
                   arguments, lines, line, parsed, fed, call, nprogress,
                   ncalls, event, index>>
    /\ UNCHANGED <<nacquire, nrelease, nfetch, mainvars, tool_result>>

NextShow == ShowApply

SpecShow == InitShow /\ [][NextShow]_vars

(***************************************************************************)
(* Properties.                                                             *)
(***************************************************************************)
Interrupted == {"EOFError", "KeyboardInterrupt"}

\* failures of the layers below the loop: the input stream, the transport
LowerLayerFatal == Interrupted \cup {"ConnectError", "McpError"}

Ended == pc \in {"exit", "exit_quiet", "traceback"}

CmdListText == <<"l", "i", "s", "t">>

\* C1: the command loop never terminates on error: the process ends only on
\* an explicit quit or on a fatal condition of a lower layer (end of input,
\* interrupt, connection failure); no dispatched command ends it with an
\* exception.
C1_LoopEndsOnlyOnQuitOrFatal ==
    Ended => \/ (pc = "exit" /\ exc = "none" /\ command = <<"q", "u", "i", "t">>)
             \/ exc \in LowerLayerFatal

\* C2: a failure of call_tool is caught in cmd_call_tool, reported with the
\* tool name and the message, nothing propagates, and the loop is back at
\* 'awaiting command' with the connection open and the catalog unchanged.
C2_CallFailureAbsorbed ==
    [][event' = "error" =>
          /\ pc = "call_tool"
          /\ pc' = "cmd_loop"
          /\ exc' = "none"
          /\ out' = << <<"failed", call.name, "message">>, LoopPrompt >>
          /\ call.name = tool_name.name
          /\ connected /\ connected'
          /\ tools' = tools]_vars

C2_Witness ==
    /\ event = "error"
    /\ pc = "cmd_loop"
    /\ connected
    /\ tools # <<>>
    /\ out[1][1] = "failed"

\* C3: on `list` the loop prints one index/name row per catalog entry in
\* catalog order, leaves the catalog, the connection and the file alone, and
\* re-prompts for the next command.
C3_ListThenReprompt ==
    [][(event' = "command" /\ command' = CmdListText) =>
          /\ out' = cmd_list_tools(tools) \o <<LoopPrompt>>
          /\ \A i \in 1..Len(tools) : out'[2 + i] = <<"row", i, tools[i]>>
          /\ tools' = tools
          /\ schema_file' = schema_file
          /\ connected' = connected
          /\ exc' = "none"
          /\ pc' = "cmd_loop"]_vars

\* C4: cmd_show_tool_schema returns no name, raises nothing and prints no
\* schema for every negative index and every index >= len(catalog) (so for
\* every index when the catalog is empty), and returns the name of the entry
\* at that position for every other index.
C4_ShowBoundsChecked ==
    pc = "show_done" =>
        /\ exc = "none"
        /\ (index < 0 \/ index >= Len(tools))
              => (shown = NoName /\ out = <<>>)
        /\ (index \in 0..(Len(tools) - 1))
              => (shown = SomeName(tools[index + 1])
                  /\ out = << <<"schema", tools[index + 1]>> >>)

C4_Witness ==
    /\ pc = "show_done"
    /\ index = 0 - 1
    /\ Len(tools) = 2
    /\ shown = NoName

\* the value of an all-digit command as a 1-based index
IndexValue(c) == DecimalValue(c)

\* C5: an all-digit command whose value is outside 1..len(catalog) takes no
\* further action: no argument prompt, no call_tool, and the loop is back at
\* 'awaiting command'.
C5_OutOfRangeNoAction ==
    [][(event' = "command" /\ IsDigit(command')
          /\ IndexValue(command') \notin 1..Len(tools)) =>
          /\ pc' = "cmd_loop"
          /\ exc' = "none"
          /\ call' = NoCall
          /\ ncalls' = 0
          /\ out' = <<LoopPrompt>>]_vars

\* C6: an all-digit command with value n in 1..len(catalog) shows the schema
\* of the n-th entry and runs the reader for the arguments; when the reader
\* returns, call_tool is invoked with that entry's name and the arguments
\* just read; a failed call is not retried, so a command makes at most one
\* call.
C6_IndexThenReadThenCallOnce ==
    [][/\ (event' = "command" /\ IsDigit(command')
             /\ IndexValue(command') \in 1..Len(tools)) =>
             /\ pc' = "input_json"
             /\ tool_name' = SomeName(tools[IndexValue(command')])
             /\ out' = << <<"schema", tools[IndexValue(command')]>>,
                          ArgsPrompt(tools[IndexValue(command')]) >>
       /\ (event' = "line" /\ pc' = "call_tool") =>
             /\ call' = [active |-> TRUE, name |-> tool_name.name,
                         args |-> arguments']
             /\ ncalls' = 1
       /\ (event' \in {"error", "result"}) =>
             (pc' = "cmd_loop" /\ ncalls' = ncalls)
       /\ ncalls' <= 1]_vars

(***************************************************************************)
(* Properties of the Structured Input Reader (input_json).                 *)
(***************************************************************************)
V_a1 == JObj(<< <<<<"a">>, JNum(1)>> >>)
V_b2 == JObj(<< <<<<"b">>, JNum(2)>> >>)
V_a1b2 == JObj(<< <<<<"a">>, JNum(1)>>, <<<<"b">>, JNum(2)>> >>)
V_nested == JObj(<< <<<<"a">>, V_b2>> >>)

\* objects whose pretty-printed form has several lines, none of which parses
MultiLineObjects ==
    {v \in {V_a1, V_b2, V_a1b2} :
        /\ Len(JsonDumps(v)) > 1
        /\ \A i \in 1..Len(JsonDumps(v)) :
              JsonDumps(v)[i] \in ArgLines /\ ~JsonLoads(JsonDumps(v)[i]).ok}

\* C7: a JSON object pretty-printed across N > 1 lines, none of them
\* parseable alone, fed line by line to a reader with an empty buffer: the
\* reader returns the object after the N-th line and after no earlier line.
C7_MultiLineReturnsAtLastLine ==
    [][event' = "line" =>
          \A v \in MultiLineObjects :
             LET all == fed \o <<line'>>
                 pl == JsonDumps(v)
             IN /\ all = pl =>
                      /\ pc' = "call_tool"
                      /\ arguments' = v
                      /\ call'.args = v
                /\ (Len(all) < Len(pl) /\ all = SubSeq(pl, 1, Len(all))) =>
                      /\ pc' = "input_json"
                      /\ fed' = all
                      /\ arguments' = NoValue
                      /\ ~call'.active]_vars

C7_Witness ==
    /\ pc = "call_tool"
    /\ event = "line"
    /\ line = L_close
    /\ arguments = V_a1b2

\* C8: a buffer that does not start with `{` is rejected before any parse
\* attempt: the error is printed, the buffer is reset to empty, the reader
\* prompts again, and the next buffer holds nothing of the rejected input.
C8_EarlyRejectResets ==
    [][event' = "line" =>
          /\ ~StartsWith(Strip(lines \o line'), <<"{">>) =>
                /\ pc' = "input_json"
                /\ lines' = <<>>
                /\ fed' = <<>>
                /\ ~parsed'
                /\ out' = <<Text("invalid json format"),
                            ArgsPrompt(tool_name.name)>>
          /\ (event = "line" /\ ~parsed /\ pc = "input_json") =>
                /\ lines = <<>>
                /\ lines' \in {<<>>, Strip(line')}]_vars

C8_Witness ==
    /\ pc = "input_json"
    /\ event = "line"
    /\ line = L_x
    /\ lines = <<>>
    /\ ~parsed
    /\ out[1] = Text("invalid json format")

\* a buffer no further line can complete: after `{` comes something that is
\* neither a key nor the closing brace
DeadBuffer(b) ==
    /\ StartsWith(b, <<"{">>)
    /\ SkipWs(b, 2) <= Len(b)
    /\ b[SkipWs(b, 2)] \notin {QUOTE, "}"}

\* the silent-accumulation part of C9, without its statement of how the
\* reader can end
C9_Accumulates ==
    /\ (event' = "line" /\ StartsWith(Strip(lines \o line'), <<"{">>)
          /\ ~JsonLoads(Strip(lines \o line')).ok) =>
          /\ pc' = "input_json"
          /\ lines' = Strip(lines \o line')
          /\ IsPrefix(lines, lines')
          /\ fed' = fed \o <<line'>>
          /\ out' = <<>>
    /\ (event' = "line" /\ DeadBuffer(lines)) =>
          (pc' = "input_json" /\ DeadBuffer(lines'))

\* the reader, holding a buffer that starts with `{`, has ended by a
\* successful parse of the whole buffer
EndsByParse ==
    /\ event' = "line"
    /\ pc' = "call_tool"
    /\ JsonLoads(Strip(lines \o line')).ok
    /\ arguments' = JsonLoads(Strip(lines \o line')).val

ReaderEnds == pc = "input_json" /\ lines # <<>> /\ pc' # "input_json"

\* C9 as stated: while the buffer starts with `{` and does not parse the
\* reader keeps every line, prints nothing, never resets and reads on; it
\* ends only by a later successful parse of the whole buffer or by the end
\* of the input stream.
C9_EndsOnlyByParseOrEof ==
    [][/\ C9_Accumulates
       /\ ReaderEnds => (EndsByParse \/ event' = "eof")]_vars

\* C9 as amended: the reader ends only by a later successful parse of the
\* whole buffer, by the end of the input stream or by an interrupt.
C9_EndsOnlyByParseEofOrInterrupt ==
    [][/\ C9_Accumulates
       /\ ReaderEnds =>
             (EndsByParse \/ event' = "eof" \/ event' = "interrupt")]_vars

C9_Witness ==
    /\ pc = "input_json"
    /\ event = "line"
    /\ Len(fed) >= 3
    /\ DeadBuffer(lines)
    /\ out = <<>>

\* valid single-line JSON objects with the value each denotes
SingleLineCases ==
    { <<L_obj0, JObj(<<>>)>>, <<L_one, V_a1>>, <<L_nested, V_nested>> }

\* C10: a valid single-line JSON object given as the first line to a reader
\* with an empty buffer is returned after that one line: no further line is
\* read and no error is printed.
C10_SingleLineReturnsAtOnce ==
    [][(event' = "line" /\ lines = <<>> /\ fed = <<>>) =>
          \A c \in SingleLineCases :
             line' = c[1] =>
                /\ c[1] \in ArgLines
                /\ pc' = "call_tool"
                /\ arguments' = c[2]
                /\ out' = << <<"call tool", tool_name.name>> >>]_vars

C10_Witness ==
    /\ pc = "call_tool"
    /\ event = "line"
    /\ line = L_one
    /\ arguments = V_a1

(***************************************************************************)
(* Properties of the session: end of input, catalog, connection, calls.    *)
(***************************************************************************)
Blocked == {"connect", "list_tools", "cmd_loop", "input_json", "call_tool"}

InSession == {"cmd_loop", "input_json", "call_tool"}

\* C11: an end of input at the command prompt or in the reader, and an
\* interrupt at any point, is caught by nothing below the top level, which
\* catches it and ends the process quietly, without a traceback.
C11_EofAndInterruptQuiet ==
    [][/\ event' = "eof" =>
             /\ pc \in {"cmd_loop", "input_json"}
             /\ exc' = "EOFError"
       /\ event' = "interrupt" =>
             /\ pc \in Blocked
             /\ exc' = "KeyboardInterrupt"
       /\ event' \in {"eof", "interrupt"} =>
             /\ pc' = "exit_quiet"
             /\ out' = <<Text("")>>
             /\ ~call'.active
             /\ ~connected']_vars

C11_Witness ==
    /\ event = "eof"
    /\ pc = "exit_quiet"
    /\ exc = "EOFError"
    /\ nfetch = 1
    /\ out = <<Text("")>>

\* C12: the catalog is fetched once, right after the connect and before the
\* first command is read; from then on no step fetches it again or changes
\* it.
C12_CatalogFetchedOnceAndStable ==
    [][/\ nfetch' <= 1
       /\ event' = "catalog" => (event = "connect_ok" /\ nfetch = 0)
       /\ event' = "command" => nfetch = 1
       /\ pc \in InSession =>
             (tools' = tools /\ nfetch' = nfetch /\ nfetch = 1)]_vars

C12_Witness ==
    /\ event = "error"
    /\ pc = "cmd_loop"
    /\ nfetch = 1
    /\ Len(tools) = MaxTools

\* C13: the connection is acquired once, at startup, and released once on
\* every way the session ends; it is never acquired again, and no catalog
\* fetch or tool call is issued before the acquire or after the release.
C13_AcquireOnceReleaseOnce ==
    [][/\ nacquire' <= 1
       /\ nrelease' <= nacquire'
       /\ connected' <=> (nacquire' = 1 /\ nrelease' = 0)
       /\ event' = "connect_ok" => (event = "none" /\ nacquire = 0)
       /\ event' \in {"catalog", "catalog_fail"} => connected
       /\ call'.active => connected'
       /\ pc' \in {"exit", "exit_quiet", "traceback"} =>
             (nrelease' = nacquire' /\ ~connected')
       /\ (pc \in InSession \/ pc = "list_tools") => nacquire = 1]_vars

C13_Witness ==
    /\ pc = "traceback"
    /\ exc = "McpError"
    /\ nacquire = 1
    /\ nrelease = 1
    /\ ~connected

\* C18: the loop waits for each operation before it reads again: a command
\* or an argument line is read only while no tool call is outstanding and no
\* catalog fetch is in progress, and a command has at most one call
\* outstanding.
C18_OneOperationAtATime ==
    [][/\ event' = "command" => (pc = "cmd_loop" /\ ~call.active)
       /\ event' = "line" => (pc = "input_json" /\ ~call.active)
       /\ event' \in {"command", "line"} => nfetch = 1
       /\ call'.active => (pc' = "call_tool" /\ ncalls' = 1)
       /\ (call.active /\ call'.active) => call' = call
       /\ call.active => event' \in {"progress", "result", "error",
                                     "interrupt"}]_vars

C18_Witness ==
    /\ pc = "call_tool"
    /\ event = "line"
    /\ call.active
    /\ ncalls = 1

\* C19: every progress notification is delivered while the call is
\* outstanding and printed in the step that delivers it, before the step that
\* completes the call and renders its result; the callback changes no
\* session state, and the call completes the same way with or without it.
C19_ProgressPrintedBeforeCompletion ==
    [][/\ event' = "progress" =>
             /\ pc = "call_tool" /\ pc' = "call_tool"
             /\ call.active /\ call' = call
             /\ out' = << <<"progress">> >>
             /\ nprogress' = nprogress + 1
             /\ UNCHANGED <<exc, connected, tools, schema_file, command,
                            tool_name, arguments, ncalls, nfetch>>
       /\ event' = "result" =>
             /\ pc = "call_tool" /\ pc' = "cmd_loop"
             /\ out' \in {pretty_print_tool_result(r) \o <<LoopPrompt>> :
                            r \in Results}
       /\ event' = "error" =>
             /\ pc = "call_tool" /\ pc' = "cmd_loop"
             /\ out' = << <<"failed", call.name, "message">>, LoopPrompt >>]_vars

C19_Witness ==
    /\ pc = "call_tool"
    /\ event = "progress"
    /\ nprogress = 2
    /\ out = << <<"progress">> >>

(***************************************************************************)
(* pretty_print_tool_result called directly, for every result of up to     *)
(* MaxSegs segments.                                                       *)
(***************************************************************************)
T_obj == <<"{", QUOTE, "a", QUOTE, ":", "1", "}">>
T_plain == <<"p", "l", "a", "i", "n">>
T_num == <<"1", "2">>
T_str == <<QUOTE, "a", QUOTE>>
T_cut == <<"{", QUOTE, "a", QUOTE, ":", "1">>
T_empty == <<>>

\* text payloads a server may send
Payloads == {T_obj, T_plain, T_num, T_str, T_cut, T_empty, L_nested}

Segments == {TextSeg(t) : t \in Payloads} \cup {OtherSeg}

RenderInputs ==
    {[has_content |-> FALSE, content |-> <<>>]}
      \cup {[has_content |-> TRUE, content |-> c] :
              c \in UNION {[1..n -> Segments] : n \in 0..MaxSegs}}

\* every variable of the session, at rest
SessionIdle ==
    /\ exc = "none"
    /\ connected = TRUE
    /\ schema_file = <<"absent">>
    /\ command = <<>>
    /\ tool_name = NoName
    /\ arguments = NoValue
    /\ lines = <<>>
    /\ line = NoLine
    /\ parsed = FALSE
    /\ fed = <<>>
    /\ call = NoCall
    /\ nprogress = 0
    /\ ncalls = 0
    /\ out = <<>>
    /\ event = "none"
    /\ nacquire = 1
    /\ nrelease = 0
    /\ nfetch = 1

InitRender ==
    /\ pc = "render_call"
    /\ tool_result \in RenderInputs
    /\ SessionIdle
    /\ tools = <<>>
    /\ index = 0
    /\ shown = NoName
    /\ args = NoArgs
    /\ url = <<>>
    /\ mcp_type = ""
    /\ headers = <<>>
    /\ config = NoConfig

RenderApply ==
    /\ pc = "render_call"
    /\ out' = pretty_print_tool_result(tool_result)
    /\ pc' = "render_done"
    /\ UNCHANGED <<exc, connected, tools, schema_file, command, tool_name,
                   arguments, lines, line, parsed, fed, call, nprogress,
                   ncalls, event, index, shown, nacquire, nrelease, nfetch,
                   tool_result, mainvars>>

NextRender == RenderApply

SpecRender == InitRender /\ [][NextRender]_vars

\* what print() shows for each payload: the lines of the re-serialized value
\* when the payload is JSON, the payload itself when it is not
RenderCases ==
    { <<T_obj, <<L_open, L_a1, L_close>> >>,
      <<T_plain, <<T_plain>> >>,
      <<T_num, <<T_num>> >>,
      <<T_str, <<T_str>> >>,
      <<T_cut, <<T_cut>> >>,
      <<T_empty, <<T_empty>> >>,
      <<L_nested,
        <<L_open, <<" ", " ", QUOTE, "a", QUOTE, ":", " ", "{">>,
          <<" ", " ", " ", " ", QUOTE, "b", QUOTE, ":", " ", "2">>,
          <<" ", " ", "}">>, L_close>> >> }

\* C20: the segments are rendered in their order, one output per segment; a
\* text payload that parses as JSON is printed re-serialized with 2-space
\* indentation, one that does not parse is printed verbatim, and a parse
\* failure is neither reported as an error nor raised.
C20_RenderInOrder ==
    (pc = "render_done" /\ tool_result.has_content) =>
        /\ exc = "none"
        /\ Len(out) = 1 + Len(tool_result.content)
        /\ out[1] = Text("tool result")
        /\ \A i \in 1..Len(tool_result.content) :
              LET seg == tool_result.content[i]
              IN /\ out[i + 1][1] # "failed"
                 /\ seg[1] = "text" =>
                       \E c \in RenderCases :
                          c[1] = seg[2] /\ out[i + 1] = <<"print", c[2]>>
                 /\ seg[1] # "text" => out[i + 1] = <<"repr", seg>>

C20_Witness ==
    /\ pc = "render_done"
    /\ tool_result.has_content
    /\ tool_result.content = <<TextSeg(T_obj), TextSeg(T_plain)>>
    /\ out[2] = <<"print", <<L_open, L_a1, L_close>> >>
    /\ out[3] = <<"print", <<T_plain>> >>

(***************************************************************************)
(* main() and FastMcpClient.__init__: from the command line to the         *)
(* constructed client.                                                     *)
(***************************************************************************)
U_sse ==
    <<"h", "t", "t", "p", ":", "/", "/", "h", "o", "s", "t", "/", "s", "s",
      "e">>
U_mcp == <<"h", "t", "t", "p", ":", "/", "/", "h", "/", "m", "c", "p">>
U_ssehost == <<"h", "t", "t", "p", ":", "/", "/", "s", "s", "e", "/", "m">>
U_ftp == <<"f", "t", "p", ":", "/", "/", "h">>
U_example ==
    <<"n", "p", "x", " ", "-", "y", " ", "s", "e", "r", "v", "e", "r", "-",
      "x", " ", "-", "-", "f", "l", "a", "g">>
U_tab == <<"n", "p", "x", TAB, "-", "y">>
U_wide == <<" ", "n", "p", "x", " ", " ", "-", "y", " ", TAB, " ", "s", " ">>
U_cmd == <<"n", "p", "x">>
U_httpcmd == <<" ", "h", "t", "t", "p", " ", "-", "x">>

\* endpoints given with -url or typed at the prompt
Urls ==
    {U_sse, U_mcp, U_ssehost, U_ftp, U_example, U_tab, U_wide, U_cmd,
     U_httpcmd}

H_a1 == <<"a", ":", " ", "1">>
H_a2 == <<"a", ":", "2">>
H_a3 == <<" ", "a", " ", ":", " ", "3", " ">>
H_bxy == <<"b", ":", "x", ":", "y">>
H_bad == <<"b", "a", "d">>
H_tab == <<"c", TAB, ":", TAB, "4">>

\* strings given with -header
HeaderStrings == {H_a1, H_a2, H_a3, H_bxy, H_bad, H_tab}

\* values of -type
Types == {"", "sse", "http", "stdio"}

HeaderLists == UNION {[1..n -> HeaderStrings] : n \in 0..MaxHeaders}

HTTP == <<"h", "t", "t", "p">>
SSE == <<"s", "s", "e">>

\* `p in s`
Contains(s, p) ==
    \E i \in 1..(Len(s) - Len(p) + 1) : SubSeq(s, i, i + Len(p) - 1) = p

\* first position >= i of s that holds c, or 0
RECURSIVE FindChar(_, _, _)
FindChar(s, c, i) ==
    IF i > Len(s) THEN 0
    ELSE IF s[i] = c THEN i
    ELSE FindChar(s, c, i + 1)

\* s.split(c, 1)
Split1(s, c) ==
    LET k == FindChar(s, c, 1)
    IN IF k = 0 THEN <<s>>
       ELSE <<SubSeq(s, 1, k - 1), SubSeq(s, k + 1, Len(s))>>

\* first position >= i of s that holds whitespace, or Len(s) + 1
RECURSIVE WordEnd(_, _)
WordEnd(s, i) ==
    IF i > Len(s) THEN Len(s) + 1
    ELSE IF IsSpace(s[i]) THEN i
    ELSE WordEnd(s, i + 1)

\* s.split(): the words between runs of whitespace
RECURSIVE SplitWs(_)
SplitWs(s) ==
    LET t == LStrip(s)
    IN IF t = <<>> THEN <<>>
       ELSE <<SubSeq(t, 1, WordEnd(t, 1) - 1)>>
              \o SplitWs(SubSeq(t, WordEnd(t, 1), Len(t)))

\* the test of the endpoint typed at the prompt
UrlAccepted(u) == StartsWith(u, HTTP)

\* a guess that looks for `sse` at the end of the url only
InferType_Suffix(type, u) ==
    IF type = ""
    THEN IF Len(u) >= 3 /\ SubSeq(u, Len(u) - 2, Len(u)) = SSE
         THEN "sse" ELSE "http"
    ELSE type

\* `if not mcp_type:` guess from url
InferType(type, u) ==
    IF type = ""
    THEN IF Contains(u, SSE) THEN "sse" ELSE "http"
    ELSE type

\* a header map that keeps the first value of a key
HeaderSet_KeepFirst(pairs, key, val) ==
    IF \E i \in 1..Len(pairs) : pairs[i][1] = key THEN pairs
    ELSE pairs \o << <<key, val>> >>

\* headers[key] = val
HeaderSet(pairs, key, val) == DictSet(pairs, key, val)

\* the loop over args.header: the map built and what is printed
RECURSIVE ParseHeaders(_, _)
ParseHeaders(hs, acc) ==
    IF hs = <<>> THEN acc
    ELSE LET parts == Split1(Head(hs), ":")
         IN IF Len(parts) = 2
            THEN ParseHeaders(Tail(hs),
                    [map |-> HeaderSet(acc.map, Strip(parts[1]),
                                       Strip(parts[2])),
                     printed |-> acc.printed \o
                        << <<"use header", Strip(parts[1]),
                             Strip(parts[2])>> >>])
            ELSE ParseHeaders(Tail(hs),
                    [map |-> acc.map,
                     printed |-> acc.printed \o
                        << <<"invalid header", Head(hs)>> >>])

\* sse_read_timeout, seconds
SseReadTimeout == 3600

\* FastMcpClient.__init__: the configuration handed to Client
FastMcpClient_init(server_url, transport_type, hdrs) ==
    IF transport_type = "stdio"
    THEN LET parts == Split1(Strip(server_url), " ")
         IN [kind |-> "stdio",
             command |-> parts[1],
             args |-> IF Len(parts) > 1 THEN SplitWs(parts[2]) ELSE <<>>,
             env |-> hdrs]
    ELSE [kind |-> "remote",
          url |-> server_url,
          headers |-> hdrs,
          transport |-> transport_type,
          sse_read_timeout |-> SseReadTimeout]

\* every variable of the session before connect_and_loop is entered
NoSession ==
    /\ exc = "none"
    /\ connected = FALSE
    /\ tools = <<>>
    /\ schema_file = <<"absent">>
    /\ command = <<>>
    /\ tool_name = NoName
    /\ arguments = NoValue
    /\ lines = <<>>
    /\ line = NoLine
    /\ parsed = FALSE
    /\ fed = <<>>
    /\ call = NoCall
    /\ nprogress = 0
    /\ ncalls = 0
    /\ out = <<>>
    /\ event = "none"
    /\ index = 0
    /\ shown = NoName
    /\ nacquire = 0
    /\ nrelease = 0
    /\ nfetch = 0
    /\ tool_result = NoResult

InitMain ==
    /\ pc = "main"
    /\ args \in [url : Urls \cup {<<>>}, type : Types, header : HeaderLists]
    /\ url = <<>>
    /\ mcp_type = ""
    /\ headers = <<>>
    /\ config = NoConfig
    /\ NoSession

SessionUntouched ==
    UNCHANGED <<exc, connected, tools, schema_file, command, tool_name,
                arguments, lines, line, parsed, fed, call, nprogress, ncalls,
                index, shown, nacquire, nrelease, nfetch, tool_result>>

\* main from the guess of the type to the constructed client
Configure(u, printed) ==
    LET t == InferType(args.type, u)
        h == ParseHeaders(args.header, [map |-> <<>>, printed |-> <<>>])
    IN /\ url' = u
       /\ mcp_type' = t
       /\ headers' = h.map
       /\ config' = FastMcpClient_init(u, t, h.map)
       /\ out' = printed \o h.printed
                   \o (IF t = "stdio" THEN <<Text("starting stdio mcp")>>
                       ELSE <<>>)
       /\ pc' = "connect"

\* -url given: no prompt
MainWithUrl ==
    /\ pc = "main"
    /\ args.url # <<>>
    /\ event' = "args"
    /\ Configure(args.url, <<>>)
    /\ UNCHANGED args
    /\ SessionUntouched

\* no -url: help, samples and the prompt, up to input()
MainNoUrl ==
    /\ pc = "main"
    /\ args.url = <<>>
    /\ event' = "args"
    /\ pc' = "input_url"
    /\ out' = <<Text("help"), Text("sample"), <<"prompt", "url">> >>
    /\ UNCHANGED <<args, url, mcp_type, headers, config>>
    /\ SessionUntouched

\* url = input().strip(), the test of the prefix, and the rest of main
InputUrl ==
    /\ pc = "input_url"
    /\ event' = "line"
    /\ \E typed \in Urls \cup {<<>>} :
          IF UrlAccepted(Strip(typed))
          THEN Configure(Strip(typed), <<>>)
          ELSE /\ url' = Strip(typed)
               /\ out' = <<Text("URL string must start with http")>>
               /\ pc' = "exit"
               /\ UNCHANGED <<mcp_type, headers, config>>
    /\ UNCHANGED args
    /\ SessionUntouched

\* input() raises EOFError or KeyboardInterrupt: the top level prints an
\* empty line
InputUrlAbort ==
    /\ pc = "input_url"
    /\ \E e \in {"EOFError", "KeyboardInterrupt"} :
          /\ exc' = e
          /\ event' = IF e = "EOFError" THEN "eof" ELSE "interrupt"
    /\ pc' = "exit_quiet"
    /\ out' = <<Text("")>>
    /\ UNCHANGED <<connected, tools, schema_file, command, tool_name,
                   arguments, lines, line, parsed, fed, call, nprogress,
                   ncalls, index, shown, nacquire, nrelease, nfetch,
                   tool_result, mainvars>>

NextMain ==
    \/ MainWithUrl
    \/ MainNoUrl
    \/ InputUrl
    \/ InputUrlAbort

SpecMain == InitMain /\ [][NextMain]_vars

(***************************************************************************)
(* Properties of main() and of the construction of the client.             *)
(***************************************************************************)
Printed(item) == \E n \in 1..Len(out) : out[n] = item

Rejected == pc = "exit" /\ Printed(Text("URL string must start with http"))

\* C14: whenever the endpoint in use does not begin with `http` and the kind
\* is not explicitly stdio, the endpoint is rejected with a message and the
\* process exits with no client constructed; whenever the kind is explicitly
\* stdio the endpoint is not rejected; both for an endpoint of the command
\* line and for one typed at the prompt.
C14_EndpointValidatedAtStartup ==
    pc \in {"connect", "exit"} =>
        /\ (~StartsWith(url, HTTP) /\ args.type # "stdio") =>
              (Rejected /\ config.kind = "none" /\ ~connected)
        /\ args.type = "stdio" => pc = "connect"

\* C15: with kind stdio, `command` is the text before the first run of
\* whitespace and `args` is the rest split on whitespace; the header map is
\* the environment of the subprocess.
C15_StdioCommandAndArgs ==
    (pc = "connect" /\ mcp_type = "stdio") =>
        /\ config.kind = "stdio"
        /\ config.command = Head(SplitWs(url))
        /\ config.args = Tail(SplitWs(url))
        /\ config.env = headers

HasColon(h) == \E i \in 1..Len(h) : h[i] = ":"
FirstColon(h) ==
    CHOOSE i \in 1..Len(h) : h[i] = ":" /\ \A j \in 1..(i - 1) : h[j] # ":"
KeyOf(h) == Strip(SubSeq(h, 1, FirstColon(h) - 1))
ValOf(h) == Strip(SubSeq(h, FirstColon(h) + 1, Len(h)))
\* the last entry of the list that has a colon and the key k
LastWith(k) ==
    CHOOSE i \in 1..Len(args.header) :
        /\ HasColon(args.header[i]) /\ KeyOf(args.header[i]) = k
        /\ \A j \in (i + 1)..Len(args.header) :
              ~(HasColon(args.header[j]) /\ KeyOf(args.header[j]) = k)

\* C16: each header string is split on its first colon; a string without a
\* colon is reported as invalid, adds nothing to the map and raises nothing;
\* key and value are trimmed; of the entries with one key the last gives the
\* value in the final map.
C16_HeadersParsed ==
    (pc = "main" /\ args.url # <<>>) \/ pc = "connect" =>
        LET hs == args.header
            valid == {i \in 1..Len(hs) : HasColon(hs[i])}
        IN pc = "connect" =>
             /\ exc = "none"
             /\ {headers[n][1] : n \in 1..Len(headers)}
                   = {KeyOf(hs[i]) : i \in valid}
             /\ \A n, m \in 1..Len(headers) :
                   headers[n][1] = headers[m][1] => n = m
             /\ \A n \in 1..Len(headers) :
                   headers[n][2] = ValOf(hs[LastWith(headers[n][1])])
             /\ \A i \in 1..Len(hs) :
                   i \notin valid => Printed(<<"invalid header", hs[i]>>)
             /\ Cardinality({n \in 1..Len(out) : out[n][1] = "invalid header"})
                   = Len(hs) - Cardinality(valid)

C16_Witness ==
    /\ pc = "connect"
    /\ args.header = <<H_a1, H_bad, H_a3>>
    /\ headers = << <<<<"a">>, <<"3">>>> >>

HasSse(u) ==
    \E i \in 1..(Len(u) - 2) : u[i] = "s" /\ u[i + 1] = "s" /\ u[i + 2] = "e"

\* C17: with no kind given the kind becomes sse when the endpoint contains
\* `sse` and http otherwise; the guess never gives stdio and a kind that was
\* given is never changed.
C17_KindInferred ==
    pc = "connect" =>
        /\ args.type = "" =>
              mcp_type = (IF HasSse(url) THEN "sse" ELSE "http")
        /\ args.type # "" => mcp_type = args.type
        /\ mcp_type = "stdio" => args.type = "stdio"
        /\ config.kind = "remote" => config.transport = mcp_type

C17_Witness ==
    /\ pc = "connect"
    /\ args.type = ""
    /\ url = U_ssehost
    /\ mcp_type = "sse"

====
